---- MODULE Spec2Model ----
(***************************************************************************)
(* Issuer side of the Private State Token protocol                         *)
(* (src/src/private-state-token.js): key map, issue with batched DLEQ      *)
(* proof, redeem, and the wire codecs of IssueRequest and RedeemRequest.   *)
(*                                                                         *)
(* P-384 is a cyclic group of prime order n, so a point is represented by  *)
(* its discrete logarithm to the base G: ZERO is 0, G is 1, P + Q is       *)
(* addition and s * P is multiplication modulo Order.  Order is a small    *)
(* prime standing for the 384-bit n; every byte length is the real one.    *)
(* Hashes are concrete mixing functions keyed by the hash and the DST.     *)
(***************************************************************************)
EXTENDS Integers, Sequences, FiniteSets, TLC

VARIABLES keys, call, host, maxBatchSize

vars == <<keys, call, host, maxBatchSize>>

\* VOPRF_P384.ORDER: the group order n (a prime below 256 here).
Order == 251
\* VOPRF_P384.BYTES: bytes of a scalar or of a coordinate.
BYTES == 48
NONCE_LENGTH == 64

\* Model bounds.
MaxCount == 2
MaxClientData == 1
MaxElements == 3
MaxKeys == 2

PointLength == BYTES * 2 + 1

-----------------------------------------------------------------------------
(* Byte strings and the DataBuffer / Base64 helpers of utils.js.           *)

Zeros(n) == [i \in 1..n |-> 0]

Slice(s, from, to) == [i \in 1..(IF to >= from THEN to - from + 1 ELSE 0) |-> s[from + i - 1]]

RECURSIVE Flatten(_)
Flatten(ss) == IF ss = <<>> THEN <<>> ELSE Head(ss) \o Flatten(Tail(ss))

\* The base-256 digits of n, most significant first, none for 0.
RECURSIVE Digits(_)
Digits(n) == IF n = 0 THEN <<>> ELSE Append(Digits(n \div 256), n % 256)

RECURSIVE StripZeros(_)
StripZeros(b) == IF b # <<>> /\ Head(b) = 0 THEN StripZeros(Tail(b)) ELSE b

\* DataBuffer.numberToBytes(n, length) for a number given by its digits:
\* big-endian, left-padded with zeros to length.
PadBytes(digits, length) ==
    IF Len(digits) >= length THEN digits ELSE Zeros(length - Len(digits)) \o digits

numberToBytes(n, length) == PadBytes(Digits(n), length)

\* DataBuffer.bytesToNumber for a value that fits an integer of the model.
RECURSIVE bytesToNumber(_)
bytesToNumber(b) ==
    IF b = <<>> THEN 0 ELSE bytesToNumber(SubSeq(b, 1, Len(b) - 1)) * 256 + b[Len(b)]

\* DataBuffer.writeInt(value, length).
writeInt(value, length) == numberToBytes(value, length)

\* Character codes of the two transcript labels written with writeString.
DLEQ_BATCH_LABEL == <<68, 76, 69, 81, 32, 66, 65, 84, 67, 72, 0>>
DLEQ_LABEL == <<68, 76, 69, 81, 0>>

\* DataBuffer.stringToBytes for the strings used as redemption records.
stringToBytes(str) == CASE str = "ok" -> <<111, 107>> [] str = "" -> <<>>

\* Base64.encode: a string is the sequence of its symbols, 0..63 for the
\* alphabet and 64 for the padding "=".
Base64Encode(b) ==
    LET n == Len(b)
        B(i) == IF i <= n THEN b[i] ELSE 0
    IN  [j \in 1..(4 * ((n + 2) \div 3)) |->
            LET g == (j - 1) \div 4
                k == (j - 1) % 4
                b0 == B(3 * g + 1)
                b1 == B(3 * g + 2)
                b2 == B(3 * g + 3)
            IN  CASE k = 0 -> b0 \div 4
                  [] k = 1 -> (b0 % 4) * 16 + b1 \div 16
                  [] k = 2 -> IF 3 * g + 2 > n THEN 64 ELSE (b1 % 16) * 4 + b2 \div 64
                  [] k = 3 -> IF 3 * g + 3 > n THEN 64 ELSE b2 % 64]

\* Base64.urlEncode: the URL-safe alphabet, in which "-" (symbol 65) and "_"
\* (symbol 66) stand for the sextets 62 and 63, without padding.
Base64UrlEncode(b) ==
    LET kept == SelectSeq(Base64Encode(b), LAMBDA c : c # 64)
    IN  [i \in 1..Len(kept) |->
            CASE kept[i] = 62 -> 65 [] kept[i] = 63 -> 66 [] OTHER -> kept[i]]

\* Base64.decode of a string in either alphabet, padded or not.
Base64Decode(s) ==
    LET m == Len(s)
        pad == IF m = 0 THEN 0
               ELSE IF s[m] # 64 THEN 0
               ELSE IF s[m - 1] # 64 THEN 1 ELSE 2
        n == m - pad
        S(i) == IF i > n \/ s[i] = 64 THEN 0
                ELSE IF s[i] = 65 THEN 62
                ELSE IF s[i] = 66 THEN 63 ELSE s[i]
    IN  [i \in 1..((n * 6) \div 8) |->
            LET g == (i - 1) \div 3
                k == (i - 1) % 3
            IN  CASE k = 0 -> S(4 * g + 1) * 4 + S(4 * g + 2) \div 16
                  [] k = 1 -> (S(4 * g + 2) % 16) * 16 + S(4 * g + 3) \div 4
                  [] k = 2 -> (S(4 * g + 3) % 4) * 64 + S(4 * g + 4)]

\* new DataBuffer(bytes).readBytes(length) at a read offset.  utils.js is
\* not part of the sources: a read past the end either raises (strict) or
\* returns the bytes that are left.
ReadIsShort(buffer, offset, length) == offset + length > Len(buffer)

readBytes(buffer, offset, length) ==
    Slice(buffer, offset + 1, IF ReadIsShort(buffer, offset, length) THEN Len(buffer) ELSE offset + length)

\* DataBuffer.readInt(length)
readInt(buffer, offset, length) == bytesToNumber(readBytes(buffer, offset, length))

-----------------------------------------------------------------------------
(* Group primitives (@noble/curves p384).                                  *)

ZERO == 0
BASE == 1

Points == 1..(Order - 1)

\* Affine coordinates of the point with discrete log p: an injective
\* encoding in which not every (x, y) is a point.
CurveX(p) == p
CurveY(p) == (p * p * p + 7) % 256

\* ProjectivePoint.toRawBytes(false): 0x04 || X(48) || Y(48).  It asserts
\* validity first, so it throws for ZERO (see RawBytesThrows).
toRawBytes(p) == <<4>> \o numberToBytes(CurveX(p), BYTES) \o numberToBytes(CurveY(p), BYTES)

RawBytesThrows(p) == p = ZERO

\* ProjectivePoint.fromHex on an uncompressed encoding: valid iff 97 bytes,
\* head 0x04 and the coordinates are those of a point.
IsValidPointBytes(b) ==
    /\ Len(b) = PointLength
    /\ b[1] = 4
    /\ \E p \in Points : b = toRawBytes(p)

fromHex(b) == CHOOSE p \in Points : b = toRawBytes(p)

\* ProjectivePoint.multiply(scalar) requires 0 < scalar < n and throws
\* otherwise (also for a scalar that is undefined).
MultiplyThrows(scalar) == ~(scalar \in 1..(Order - 1))

multiply(p, scalar) == (p * scalar) % Order

add(p, q) == (p + q) % Order

HashSeed(hash) == CASE hash = "sha512" -> 512 [] hash = "sha384" -> 384

\* A digest has only Order values as a scalar or as a point, so two inputs
\* can share one where SHA-384 and SHA-512 would not.  The seeds are such
\* that the coefficients and challenges of the two versions share none over
\* batches of up to three of the nonces in NoncePoints, and that for each
\* nonce in Nonces the tokens sk * hash_to_group(nonce) of the secrets in
\* SecretScalars under the two versions are distinct points other than G.
DstSeed(dst) ==
    CASE dst = "TrustToken VOPRF Experiment V2 HashToGroup" -> 11
      [] dst = "TrustToken VOPRF Experiment V2 HashToScalar" -> 12
      [] dst = "HashToGroup-OPRFV1-P384-SHA384" -> 15
      [] dst = "HashToScalar-OPRFV1-P384-SHA384" -> 16

\* 131^k modulo 32749.
RECURSIVE Pow131(_)
Pow131(k) ==
    IF k = 0 THEN 1
    ELSE LET half == Pow131(k \div 2)
         IN  (((half * half) % 32749) * (IF k % 2 = 1 THEN 131 ELSE 1)) % 32749

\* The digest of msg[lo..hi] started from 0: each byte b takes the running
\* digest h to (h * 131 + b + 1) % 32749 (computed by halves).
RECURSIVE Absorb(_, _, _)
Absorb(msg, lo, hi) ==
    IF lo > hi THEN 0
    ELSE IF lo = hi THEN (msg[lo] + 1) % 32749
    ELSE LET mid == (lo + hi) \div 2
         IN  (Absorb(msg, lo, mid) * Pow131(hi - mid) + Absorb(msg, mid + 1, hi)) % 32749

\* The digest of msg under a hash function and a DST: the bytes absorbed
\* into a start value that the hash and the DST fix.
Digest(msg, hash, dst) ==
    ((HashSeed(hash) * 100 + DstSeed(dst)) * Pow131(Len(msg)) + Absorb(msg, 1, Len(msg))) % 32749

\* hash_to_field(msg, 1, {DST, p, hash, ...})[0][0]: a scalar in [0, p).
hash_to_field(msg, config) ==
    Digest(msg, config.hash, config.DST) % config.p

\* hashToCurve(msg, {DST, hash}): a point, never the identity.
hashToCurve(msg, config) ==
    1 + (Digest(msg, config.hash, config.DST) % (Order - 1))

-----------------------------------------------------------------------------
(* Protocol versions (PrivateStateTokenIssuer.VERSIONS).  The DST strings  *)
(* stand for the source's, which also hold \x01 and a trailing NUL.        *)

PrivateStateTokenV3VOPRF ==
    [name |-> "PrivateStateTokenV3VOPRF",
     suite |-> "P384_XMD:SHA-512_SSWU_RO_",
     hash |-> "sha512",
     hashToGroupDST |-> "TrustToken VOPRF Experiment V2 HashToGroup",
     hashToScalarDST |-> "TrustToken VOPRF Experiment V2 HashToScalar"]

PrivateStateTokenV1VOPRF ==
    [name |-> "PrivateStateTokenV1VOPRF",
     suite |-> "P384_XMD:SHA-384_SSWU_RO_",
     hash |-> "sha384",
     hashToGroupDST |-> "HashToGroup-OPRFV1-P384-SHA384",
     hashToScalarDST |-> "HashToScalar-OPRFV1-P384-SHA384"]

DEFAULT_VERSION == "PrivateStateTokenV3VOPRF"

\* VERSIONS.get(version) || VERSIONS.get(DEFAULT_VERSION)
getVersionConfig(version) ==
    CASE version = "PrivateStateTokenV3VOPRF" -> PrivateStateTokenV3VOPRF
      [] version = "PrivateStateTokenV1VOPRF" -> PrivateStateTokenV1VOPRF
      [] OTHER -> PrivateStateTokenV3VOPRF

\* The options object issue and #generateDLEQProof build for hash_to_field.
hashTofieldConfig(config) ==
    [DST |-> config.hashToScalarDST, p |-> Order, hash |-> config.hash]

-----------------------------------------------------------------------------
(* Key model.                                                              *)

\* A timestamp is the sequence of its decimal digits, most significant first;
\* <<>> stands for a missing (undefined) expiry.
NoExpiry == <<>>

\* "expiry || ...": undefined and 0 are falsy.
IsFalsy(expiry) == expiry = NoExpiry \/ expiry = <<0>>

\* Math.log10(expiry), computed in double arithmetic, is one less than the
\* number of digits of expiry: for an exact power of ten, and for 10^15 + 1
\* and 10^15 + 2, whose logarithm is nearer to the double 15 than to the next
\* double above it.  (A value just below a power of ten, such as 10^15 - 1 or
\* 10^16 - 2, has a logarithm that rounds up to its number of digits, which
\* is what Math.ceil gives for it in any case.)
Log10IsDigitsLessOne(expiry) ==
    /\ expiry[1] = 1
    /\ \/ \A i \in 2..Len(expiry) : expiry[i] = 0
       \/ /\ Len(expiry) = 16
          /\ \A i \in 2..15 : expiry[i] = 0
          /\ expiry[16] \in {1, 2}

\* Math.ceil(Math.log10(expiry)) for a value of at most 16 digits: the
\* number of digits, and one less when Math.log10 returns that integer.
CeilLog10(expiry) ==
    IF Log10IsDigitsLessOne(expiry) THEN Len(expiry) - 1 ELSE Len(expiry)

\* Constructor, line 269:
\* expiry * 10 ** (Math.ceil(Math.max(16 - Math.ceil(Math.log10(expiry)), 0) / 3) * 3)
\* A value of 17 digits or more has a logarithm of at least 16 and is kept.
scaleExpiry(expiry) ==
    LET missing == IF Len(expiry) > 16 THEN 0
                   ELSE IF 16 - CeilLog10(expiry) > 0 THEN 16 - CeilLog10(expiry)
                   ELSE 0
    IN  expiry \o Zeros(((missing + 2) \div 3) * 3)

\* The values handed to PrivateStateTokenSecretKey.from and kept as a secret
\* key's scalar: a bigint, a Uint8Array (what ec.utils.randomPrivateKey()
\* returns), an Array of bytes (what Base64.decode returns) or a string.
BigInt(n) == [bigint |-> n]
Uint8Array(bytes) == [Uint8Array |-> bytes]
Array(bytes) == [Array |-> bytes]
String(str) == [string |-> str]

IsBigInt(value) == DOMAIN value = {"bigint"}

\* point.multiply(secretKey.scalar): it throws for a scalar that is not a
\* bigint as for one outside [1, n-1].
ScalarThrows(value) == ~IsBigInt(value) \/ MultiplyThrows(value.bigint)

\* new PrivateStateTokenSecretKey(id, scalar, expiry)
PrivateStateTokenSecretKey(id, scalar, expiry) ==
    [id |-> id, scalar |-> scalar, expiry |-> expiry]

\* PrivateStateTokenPublicKey.from(id, bytes, expiry): the key keeps the
\* number the bytes spell (here: its base-256 digits).
PrivateStateTokenPublicKey(id, bytes, expiry) ==
    [id |-> id, scalar |-> StripZeros(bytes), expiry |-> expiry]

\* PrivateStateTokenPublicKey.toBytes()
publicKeyToBytes(publicKey) == PadBytes(publicKey.scalar, PointLength)

\* PrivateStateTokenPublicKey.toXY(): x is bytes.slice(1, BYTES + 1) and y is
\* bytes.slice(BYTES + 2), which starts one byte after the end of x.
toXY(publicKey) ==
    LET bytes == publicKeyToBytes(publicKey)
    IN  [x |-> Base64UrlEncode(Slice(bytes, 2, BYTES + 1)),
         y |-> Base64UrlEncode(Slice(bytes, BYTES + 3, Len(bytes)))]

\* PrivateStateTokenSecretKey.toBytes() and toString()
secretKeyToBytes(secretKey) == numberToBytes(secretKey.scalar.bigint, BYTES)
secretKeyToString(secretKey) == Base64Encode(secretKeyToBytes(secretKey))

\* set id(value = 0): the pair and both keys take the value.
setId(pair, value) ==
    [pair EXCEPT !.id = value, !.publicKey.id = value, !.secretKey.id = value]

\* set expiry that leaves the secret key's expiry as it was.
setExpiryNotSecret(pair, value) ==
    LET stored == IF value = NoExpiry THEN <<0>> ELSE value
    IN  [pair EXCEPT !.expiry = stored, !.publicKey.expiry = stored]

\* set expiry(value = 0): the pair and both keys take the value as given,
\* and 0 when undefined is assigned.
setExpiry(pair, value) ==
    LET stored == IF value = NoExpiry THEN <<0>> ELSE value
    IN  [pair EXCEPT !.expiry = stored, !.publicKey.expiry = stored,
                     !.secretKey.expiry = stored]

\* new PrivateStateTokenKeyPair(id, publicKey, secretKey, expiry), where
\* defaultExpiry is Date.now() + 90 days in milliseconds.  #id is set without
\* the setter (id || secretKey.id || 0); the expiry goes through the setter.
PrivateStateTokenKeyPair(id, publicKey, secretKey, expiry, defaultExpiry) ==
    LET given == IF ~IsFalsy(expiry) THEN expiry
                 ELSE IF ~IsFalsy(secretKey.expiry) THEN secretKey.expiry
                 ELSE IF ~IsFalsy(publicKey.expiry) THEN publicKey.expiry
                 ELSE defaultExpiry
    IN  setExpiry([id |-> IF id # 0 THEN id ELSE secretKey.id,
                   expiry |-> NoExpiry,
                   publicKey |-> publicKey,
                   secretKey |-> secretKey],
                  scaleExpiry(given))

\* PrivateStateTokenSecretKey.from(id, value, expiry): a string is decoded,
\* a Uint16Array or an Array is turned into the number it spells, and any
\* other value, a Uint8Array included, is kept as it is.
SecretKeyFrom(id, value, expiry) ==
    LET decoded == IF DOMAIN value = {"string"} THEN Array(Base64Decode(value.string))
                   ELSE value
    IN  PrivateStateTokenSecretKey(id,
            IF DOMAIN decoded = {"Array"} THEN BigInt(bytesToNumber(decoded.Array))
            ELSE decoded,
            expiry)

\* PrivateStateTokenKeyPair.generate(id), where ec.utils.randomPrivateKey()
\* returns the 48 bytes of priv as a Uint8Array: the public key is priv * G.
generate(id, priv, defaultExpiry) ==
    PrivateStateTokenKeyPair(id,
        PrivateStateTokenPublicKey(id, toRawBytes(multiply(BASE, priv)), NoExpiry),
        SecretKeyFrom(id, Uint8Array(numberToBytes(priv, BYTES)), NoExpiry),
        NoExpiry, defaultExpiry)

\* PrivateStateTokenPublicKey.fromXY(id, x, y, expiry): the key of the bytes
\* 0x04 || x || y.
fromXY(id, x, y, expiry) == PrivateStateTokenPublicKey(id, <<4>> \o x \o y, expiry)

\* PrivateStateTokenKeyPair.fromJWK(jwk, id = 0)
fromJWK(jwk, id, defaultExpiry) ==
    LET keyID == IF id # 0 THEN id ELSE jwk.kid
        x == Base64Decode(jwk.x)
        y == Base64Decode(jwk.y)
        d == Array(Base64Decode(jwk.d))
        expiry == jwk.exp
    IN  PrivateStateTokenKeyPair(keyID,
            fromXY(keyID, x, y, expiry),
            SecretKeyFrom(keyID, d, expiry),
            expiry, defaultExpiry)

\* toJWK(): kty, crv, kid, x, y and d; no exp is written.
toJWK(pair) ==
    LET xy == toXY(pair.publicKey)
    IN  [kty |-> "EC", crv |-> "P-384", kid |-> pair.id,
         x |-> xy.x, y |-> xy.y,
         d |-> secretKeyToString(pair.secretKey),
         exp |-> NoExpiry]

\* The issuer's #keys: a Map in insertion order, as a sequence of entries.
MapHas(map, k) == \E i \in 1..Len(map) : map[i].key = k

MapGet(map, k) == map[CHOOSE i \in 1..Len(map) : map[i].key = k].value

\* Map.prototype.set as delete followed by set: the entry always goes last.
MapSetMovingLast(map, k, v) ==
    Append(SelectSeq(map, LAMBDA e : e.key # k), [key |-> k, value |-> v])

\* Map.prototype.set: an existing key keeps its place, a new one goes last.
MapSet(map, k, v) ==
    IF MapHas(map, k)
    THEN [i \in 1..Len(map) |-> IF map[i].key = k THEN [key |-> k, value |-> v] ELSE map[i]]
    ELSE Append(map, [key |-> k, value |-> v])

\* new Map(keys.map(k => [k.id, k])) in the issuer's constructor.
RECURSIVE MapOf(_)
MapOf(pairs) ==
    IF pairs = <<>> THEN <<>>
    ELSE LET last == pairs[Len(pairs)]
         IN  MapSet(MapOf(SubSeq(pairs, 1, Len(pairs) - 1)), last.id, last)

\* get publicKeys(): the public key of every pair, in the Map's order.
publicKeys(map) == [i \in 1..Len(map) |-> map[i].value.publicKey]

\* PrivateStateTokenIssuer.KEY_COMMITMENT_ID
KEY_COMMITMENT_ID == 1

\* DataBuffer.writeInt32(value)
writeInt32(value) == numberToBytes(value, 4)

\* `${expiry}`: the character codes of the decimal digits ("undefined" for a
\* missing expiry).
expiryToString(expiry) ==
    IF expiry = NoExpiry THEN <<117, 110, 100, 101, 102, 105, 110, 101, 100>>
    ELSE [i \in 1..Len(expiry) |-> 48 + expiry[i]]

\* keyCommitment(version): { [host]: { [protocol.name]: keyCommitment } }.
\* keyCommitment.keys is written under each public key's id, in the order
\* of publicKeys, so the last key with an id is the one that stays.
keyCommitment(map, issuerHost, batchSize, version) ==
    LET protocol == getVersionConfig(version)
        listed == publicKeys(map)
        entry(key) ==
            [Y |-> Base64Encode(writeInt32(key.id) \o publicKeyToBytes(key)),
             expiry |-> expiryToString(key.expiry)]
        last(id) == CHOOSE i \in 1..Len(listed) :
                        /\ listed[i].id = id
                        /\ \A j \in (i + 1)..Len(listed) : listed[j].id # id
        document ==
            [protocol_version |-> protocol.name,
             id |-> KEY_COMMITMENT_ID,
             batchsize |-> batchSize,
             keys |-> [id \in {listed[i].id : i \in 1..Len(listed)} |-> entry(listed[last(id)])]]
    IN  issuerHost :> (protocol.name :> document)

-----------------------------------------------------------------------------
(* Issue engine.                                                           *)

\* issue, lines 884-885: z = blindedToken.multiply(secretKey.scalar)
signedNonces(keyPair, nonces) ==
    [i \in 1..Len(nonces) |-> multiply(nonces[i], keyPair.secretKey.scalar.bigint)]

\* batchTranscript with every T_i first and every Z_i after them.
batchTranscriptGrouped(keyPair, nonces, signed) ==
    publicKeyToBytes(keyPair.publicKey)
      \o Flatten([i \in 1..Len(nonces) |-> toRawBytes(nonces[i])])
      \o Flatten([i \in 1..Len(nonces) |-> toRawBytes(signed[i])])

\* issue, lines 881-889: the public key bytes, then T_i and Z_i in turn.
batchTranscript(keyPair, nonces, signed) ==
    publicKeyToBytes(keyPair.publicKey)
      \o Flatten([i \in 1..Len(nonces) |-> toRawBytes(nonces[i]) \o toRawBytes(signed[i])])

\* issue, lines 892-899: exponentList[i], i counted from 0 in the source.
exponentList(batch, count, config) ==
    [i \in 1..count |->
        hash_to_field(DLEQ_BATCH_LABEL \o batch \o writeInt(i - 1, 2),
                      hashTofieldConfig(config))]

\* issue, lines 901-913: the sum of exponent * point over the batch.
RECURSIVE composite(_, _, _)
composite(points, exponents, i) ==
    IF i = 0 THEN ZERO
    ELSE add(composite(points, exponents, i - 1), multiply(points[i], exponents[i]))

\* #generateDLEQProof, line 982: the nonce r is the constant ORDER - 1;
\* nothing is read from a random source.
proofNonce == Order - 1

\* #generateDLEQProof, line 1007, with u = r - c * sk.
responseScalarNegated(r, c, scalar) == (r + Order * Order - c * scalar) % Order

\* #generateDLEQProof, line 1007: u = (r + c * sk) % n
responseScalar(r, c, scalar) == (r + c * scalar) % Order

\* #generateDLEQProof(keyPair, btBatch, zBatch, version)
generateDLEQProof(keyPair, btBatch, zBatch, version) ==
    LET r == proofNonce
        config == getVersionConfig(version)
        k0 == multiply(BASE, r)
        k1 == multiply(btBatch, r)
        c == hash_to_field(DLEQ_LABEL \o publicKeyToBytes(keyPair.publicKey)
                               \o toRawBytes(btBatch) \o toRawBytes(zBatch)
                               \o toRawBytes(k0) \o toRawBytes(k1),
                           hashTofieldConfig(config))
        u == responseScalar(r, c, keyPair.secretKey.scalar.bigint)
    IN  numberToBytes(c, BYTES) \o numberToBytes(u, BYTES)

\* The exceptions issue can end in for a key pair it found: multiply with a
\* scalar outside [1, n-1] (lines 884, 905, 912), or toRawBytes of ZERO in
\* #generateDLEQProof (lines 1000-1001).
issueThrows(keyPair, nonces, exponents, blindedTokenBatch, zBatch) ==
    \/ nonces # <<>> /\ ScalarThrows(keyPair.secretKey.scalar)
    \/ \E i \in 1..Len(nonces) : MultiplyThrows(exponents[i])
    \/ RawBytesThrows(blindedTokenBatch)
    \/ RawBytesThrows(zBatch)

\* issueWithKey signing the point each nonce hashes to under the version's
\* HashToGroup DST, not the nonce itself.
issueWithKeyHashed(keyPair, keyId, nonces, version) ==
    LET config == getVersionConfig(version)
        z == [i \in 1..Len(nonces) |->
                multiply(hashToCurve(toRawBytes(nonces[i]),
                                     [DST |-> config.hashToGroupDST, hash |-> config.hash]),
                         keyPair.secretKey.scalar.bigint)]
        exps == exponentList(batchTranscript(keyPair, nonces, z), Len(nonces), config)
        blindedTokenBatch == composite(nonces, exps, Len(nonces))
        zBatch == composite(z, exps, Len(nonces))
    IN  IF issueThrows(keyPair, nonces, exps, blindedTokenBatch, zBatch)
        THEN [kind |-> "throw"]
        ELSE [kind |-> "response",
              keyID |-> keyId,
              signed |-> z,
              proof |-> generateDLEQProof(keyPair, blindedTokenBatch, zBatch,
                                          "PrivateStateTokenV3VOPRF")]

\* issue, lines 865-916, for the key pair found under keyId: the
\* IssueResponse, unless a step throws.  #generateDLEQProof is called
\* without a version, so its own default "PrivateStateTokenV3VOPRF" applies.
issueWithKey(keyPair, keyId, nonces, version) ==
    LET config == getVersionConfig(version)
        z == signedNonces(keyPair, nonces)
        exps == exponentList(batchTranscript(keyPair, nonces, z), Len(nonces), config)
        blindedTokenBatch == composite(nonces, exps, Len(nonces))
        zBatch == composite(z, exps, Len(nonces))
    IN  IF issueThrows(keyPair, nonces, exps, blindedTokenBatch, zBatch)
        THEN [kind |-> "throw"]
        ELSE [kind |-> "response",
              keyID |-> keyId,
              signed |-> z,
              proof |-> generateDLEQProof(keyPair, blindedTokenBatch, zBatch,
                                          "PrivateStateTokenV3VOPRF")]

\* issue(keyId, request, version), lines 858-863: null for an unknown key.
issue(map, keyId, nonces, version) ==
    IF ~MapHas(map, keyId) THEN [kind |-> "null"]
    ELSE issueWithKey(MapGet(map, keyId), keyId, nonces, version)

-----------------------------------------------------------------------------
(* Redeem engine.                                                          *)

\* new RedeemResponse(record): a typed array is copied to an array, an
\* array is kept, anything else is taken for a string.
RedeemResponse(record) ==
    [kind |-> "response",
     record |-> IF record.type = "string" THEN stringToBytes(record.data) ELSE record.data]

\* redeem, lines 1088-1089: an unknown keyID makes secretKey undefined and
\* multiply(undefined) throws, as does multiply of a scalar kept as Uint8Array.
redeemThrows(map, request) ==
    \/ ~MapHas(map, request.keyID)
    \/ ScalarThrows(MapGet(map, request.keyID).secretKey.scalar)

\* redeem(request, redemptionRecord, version)
redeem(map, request, redemptionRecord, version) ==
    LET config == getVersionConfig(version)
        evaluatedElement ==
            hashToCurve(request.nonce, [DST |-> config.hashToGroupDST, hash |-> config.hash])
    IN  IF redeemThrows(map, request) THEN [kind |-> "throw"]
        ELSE LET secretKey == MapGet(map, request.keyID).secretKey
                 issuedElement == multiply(evaluatedElement, secretKey.scalar.bigint)
             IN  IF request.point = issuedElement
                 THEN RedeemResponse(redemptionRecord)
                 ELSE [kind |-> "null"]

-----------------------------------------------------------------------------
(* Wire codec.                                                             *)

\* IssueRequest.toBytes / toString
IssueRequestToBytes(nonces) ==
    writeInt(Len(nonces), 2) \o Flatten([i \in 1..Len(nonces) |-> toRawBytes(nonces[i])])

IssueRequestToString(nonces) == Base64Encode(IssueRequestToBytes(nonces))

\* IssueRequest.from, lines 388-397: the loop runs while nonces.length <
\* count; every pass reads 97 bytes and pushes them only if they are a
\* point.  Past the end of the buffer a strict read raises; a lenient one
\* yields a short value that is never a point, so nonces.length stays
\* below count for ever.
RECURSIVE readNonces(_, _, _, _, _)
readNonces(buffer, offset, count, nonces, strict) ==
    IF ~(Len(nonces) < count) THEN [kind |-> "request", nonces |-> nonces]
    ELSE IF ReadIsShort(buffer, offset, PointLength)
         THEN (IF strict THEN [kind |-> "throw"] ELSE [kind |-> "diverge"])
    ELSE LET value == readBytes(buffer, offset, PointLength)
         IN  readNonces(buffer, offset + PointLength, count,
                        IF IsValidPointBytes(value) THEN Append(nonces, fromHex(value)) ELSE nonces,
                        strict)

IssueRequestFrom(s, strict) ==
    LET bytes == Base64Decode(s)
    IN  IF strict /\ ReadIsShort(bytes, 0, 2) THEN [kind |-> "throw"]
        ELSE readNonces(bytes, 2, readInt(bytes, 0, 2), <<>>, strict)

\* RedeemRequest.toBytes writing the client data length in one byte.
RedeemRequestToBytesShortLength(request) ==
    writeInt(Len(request.nonce) + Len(toRawBytes(request.point)) + 4, 2)
      \o writeInt(request.keyID, 4)
      \o request.nonce
      \o toRawBytes(request.point)
      \o writeInt(Len(request.clientData), 1)
      \o request.clientData

\* RedeemRequest.toBytes / toString
RedeemRequestToBytes(request) ==
    writeInt(Len(request.nonce) + Len(toRawBytes(request.point)) + 4, 2)
      \o writeInt(request.keyID, 4)
      \o request.nonce
      \o toRawBytes(request.point)
      \o writeInt(Len(request.clientData), 2)
      \o request.clientData

RedeemRequestToString(request) == Base64Encode(RedeemRequestToBytes(request))

\* RedeemRequest.from: tokenLen is read and not used; new ECPoint(value)
\* throws for bytes that are no point.
RedeemRequestFrom(s, strict) ==
    LET bytes == Base64Decode(s)
        tokenLen == readInt(bytes, 0, 2)
        keyID == readInt(bytes, 2, 4)
        nonce == readBytes(bytes, 6, NONCE_LENGTH)
        value == readBytes(bytes, 6 + NONCE_LENGTH, PointLength)
        afterPoint == 6 + NONCE_LENGTH + PointLength
        clientDataLen == readInt(bytes, afterPoint, 2)
        clientData == readBytes(bytes, afterPoint + 2, clientDataLen)
    IN  IF strict /\ ReadIsShort(bytes, 0, afterPoint + 2) THEN [kind |-> "throw"]
        ELSE IF ~IsValidPointBytes(value) THEN [kind |-> "throw"]
        ELSE IF strict /\ ReadIsShort(bytes, afterPoint + 2, clientDataLen) THEN [kind |-> "throw"]
        ELSE [kind |-> "request", keyID |-> keyID, nonce |-> nonce,
              point |-> fromHex(value), clientData |-> clientData]


-----------------------------------------------------------------------------
(* Inputs of the calls.                                                    *)

SeqsUpTo(S, n) == UNION {[1..k -> S] : k \in 0..n}

KeyIds == {0, 1}

\* Date.now() + 90 * 24 * 60 * 60 * 1000 at a moment in 2026, in milliseconds.
DefaultExpiry == <<1, 7, 8, 5, 0, 0, 0, 0, 0, 0, 0, 0, 0>>

\* PrivateStateTokenKeyPair built from a public key that need not be the
\* secret's (the constructor does not check).
imported(id, point, scalar) ==
    PrivateStateTokenKeyPair(id,
        PrivateStateTokenPublicKey(id, toRawBytes(point), NoExpiry),
        PrivateStateTokenSecretKey(id, BigInt(scalar), NoExpiry),
        NoExpiry, DefaultExpiry)

\* PrivateStateTokenKeyPair.TEST_JWK: kid 0, the secret d = n - 1, x and y
\* the coordinates of (n - 1) * G, exp = 253402300799.
TEST_JWK ==
    fromJWK([kty |-> "EC", crv |-> "P-384", kid |-> 0,
             x |-> Base64UrlEncode(numberToBytes(CurveX(Order - 1), BYTES)),
             y |-> Base64UrlEncode(numberToBytes(CurveY(Order - 1), BYTES)),
             d |-> Base64Encode(numberToBytes(Order - 1, BYTES)),
             exp |-> <<2, 5, 3, 4, 0, 2, 3, 0, 0, 7, 9, 9>>],
            0, DefaultExpiry)

\* Key pairs an issuer can be given: two for id 0 (the test key and an
\* imported one) and two for id 1 (a generated one and an imported one whose
\* public key is not its secret's).
KeyPairs ==
    {TEST_JWK, imported(0, multiply(BASE, 2), 2),
     generate(1, 2, DefaultExpiry), imported(1, 5, 3)}

\* The number a key pair's secret spells, whatever value holds it.
Secret(keyPair) ==
    IF IsBigInt(keyPair.secretKey.scalar) THEN keyPair.secretKey.scalar.bigint
    ELSE bytesToNumber(keyPair.secretKey.scalar.Uint8Array)

SecretScalars == {Secret(kp) : kp \in KeyPairs}

NoncePoints == {BASE, 9}
Requests == SeqsUpTo(NoncePoints, MaxCount)
VersionNames == {"PrivateStateTokenV3VOPRF", "PrivateStateTokenV1VOPRF", "PrivateStateTokenV2VOPRF"}
IssueVersions == {"PrivateStateTokenV3VOPRF", "PrivateStateTokenV1VOPRF"}
RandomScalars == {5, Order - 1}

\* Redeem requests: two 64-byte nonces; as point, what each secret makes of
\* the nonce under each version, or G.
Nonces == {Zeros(NONCE_LENGTH), Zeros(NONCE_LENGTH - 1) \o <<1>>}

TokenPoints(nonce) ==
    {BASE} \cup
    {multiply(hashToCurve(nonce, [DST |-> v.hashToGroupDST, hash |-> v.hash]), sk) :
        v \in {PrivateStateTokenV3VOPRF, PrivateStateTokenV1VOPRF}, sk \in SecretScalars}

Records ==
    {[type |-> "array", data |-> <<1, 2>>],
     [type |-> "view", data |-> <<3>>],
     [type |-> "string", data |-> "ok"]}

\* Wire inputs of the decoders.
BadPointBytes == [toRawBytes(BASE) EXCEPT ![PointLength] = (@ + 1) % 256]
WireElements == {toRawBytes(p) : p \in NoncePoints} \cup {BadPointBytes}

WireIssueRequests ==
    {Base64Encode(writeInt(count, 2) \o Flatten(elements)) :
        count \in 0..MaxElements, elements \in SeqsUpTo(WireElements, MaxElements)}

RedeemKeyIds == {0, 16909060}
ClientData == SeqsUpTo({0, 200}, MaxClientData)

RedeemRequests ==
    [keyID : RedeemKeyIds, nonce : Nonces, point : NoncePoints, clientData : ClientData]

\* A RedeemRequest on the wire with a token_len field and a client_data_len
\* field that need not be the true lengths, and a W that need not be a point.
WireRedeemRequests ==
    {Base64Encode(writeInt(tokenLen, 2) \o writeInt(m.keyID, 4) \o m.nonce \o w
                    \o writeInt(Len(m.clientData) + extra, 2) \o m.clientData) :
        tokenLen \in {NONCE_LENGTH + PointLength + 4, NONCE_LENGTH + PointLength + 3},
        m \in RedeemRequests,
        w \in {toRawBytes(BASE), BadPointBytes},
        extra \in {0, 1}}

\* Issuer configuration: the server origin and the advertised batch size.
DEFAULT_HOST == "https://localhost:8444"
Idle == [op |-> "idle"]
NotSent == [some |-> FALSE]

-----------------------------------------------------------------------------
(* The issuer as a state machine: keys is #keys, call the call in progress *)
(* with its arguments and its outcome.                                     *)

\* new PrivateStateTokenIssuer(host, maxBatchSize, keys) with no key or one.
Init ==
    /\ keys \in {<<>>} \cup {<<[key |-> k.id, value |-> k]>> : k \in KeyPairs}
    /\ call = Idle
    /\ host = DEFAULT_HOST
    /\ maxBatchSize = 10

\* addKey(key): this.#keys.set(key.id, key).  call.replaced is the key pair
\* the map held under the id before the call, if any.
AddKey ==
    /\ call.op = "idle"
    /\ \E key \in KeyPairs :
          /\ keys' = MapSet(keys, key.id, key)
          /\ call' = [op |-> "addKey", key |-> key,
                      replaced |-> IF MapHas(keys, key.id)
                                   THEN <<MapGet(keys, key.id)>> ELSE <<>>]
    /\ UNCHANGED <<host, maxBatchSize>>

\* Issue forgetting the key pair of a call that ended in an exception.
IssueEvictingKey ==
    /\ call.op = "idle"
    /\ \E keyId \in KeyIds \cup {99}, nonces \in Requests, version \in IssueVersions :
          LET res == issue(keys, keyId, nonces, version)
          IN  /\ \E random \in RandomScalars :
                    call' = [op |-> "issue", keyId |-> keyId, nonces |-> nonces,
                             version |-> version, random |-> random, r |-> proofNonce,
                             res |-> res]
              /\ keys' = IF res.kind = "throw"
                         THEN SelectSeq(keys, LAMBDA e : e.key # keyId)
                         ELSE keys
    /\ UNCHANGED <<host, maxBatchSize>>

\* issue(keyId, request, version); random is what the random source would
\* deliver to this call, r the proof nonce the call uses.
Issue ==
    /\ call.op = "idle"
    /\ \E keyId \in KeyIds \cup {99}, nonces \in Requests, version \in IssueVersions :
          LET res == issue(keys, keyId, nonces, version)
          IN  \E random \in RandomScalars :
                 call' = [op |-> "issue", keyId |-> keyId, nonces |-> nonces,
                          version |-> version, random |-> random, r |-> proofNonce,
                          res |-> res]
    /\ UNCHANGED <<keys, host, maxBatchSize>>

\* redeem(request, redemptionRecord, version)
Redeem ==
    /\ call.op = "idle"
    /\ \E keyID \in KeyIds \cup {99}, nonce \in Nonces, record \in Records,
          version \in VersionNames :
          \E point \in TokenPoints(nonce) :
             LET request == [keyID |-> keyID, nonce |-> nonce, point |-> point,
                             clientData |-> <<>>]
             IN  call' = [op |-> "redeem", request |-> request, record |-> record,
                          version |-> version,
                          res |-> redeem(keys, request, record, version)]
    /\ UNCHANGED <<keys, host, maxBatchSize>>

\* The caller takes the result; the issuer is ready for the next call.
Return ==
    /\ call.op # "idle"
    /\ call' = Idle
    /\ UNCHANGED <<keys, host, maxBatchSize>>

Next == AddKey \/ Issue \/ Redeem \/ Return

Spec == Init /\ [][Next]_vars

-----------------------------------------------------------------------------
(* The wire codec on its own: the static from / toString of the messages.  *)
(* call.sent is the message whose encoding a decoder was given, if any.    *)

CodecInit ==
    /\ keys = <<>>
    /\ call = Idle
    /\ host = DEFAULT_HOST
    /\ maxBatchSize = 10

\* new IssueRequest(nonces).toString()
EncodeIssueRequest ==
    /\ call.op = "idle"
    /\ \E nonces \in Requests :
          call' = [op |-> "IssueRequest.toString", nonces |-> nonces,
                   res |-> IssueRequestToString(nonces)]
    /\ UNCHANGED <<keys, host, maxBatchSize>>

\* IssueRequest.from(s), of a string just encoded or of one off the wire.
DecodeIssueRequest ==
    /\ \E strict \in BOOLEAN :
          \/ /\ call.op = "IssueRequest.toString"
             /\ call' = [op |-> "IssueRequest.from", s |-> call.res, strict |-> strict,
                         sent |-> [some |-> TRUE, nonces |-> call.nonces],
                         res |-> IssueRequestFrom(call.res, strict)]
          \/ /\ call.op = "idle"
             /\ \E s \in WireIssueRequests :
                   call' = [op |-> "IssueRequest.from", s |-> s, strict |-> strict,
                            sent |-> NotSent,
                            res |-> IssueRequestFrom(s, strict)]
    /\ UNCHANGED <<keys, host, maxBatchSize>>

\* new RedeemRequest(keyID, nonce, point, clientData).toString()
EncodeRedeemRequest ==
    /\ call.op = "idle"
    /\ \E request \in RedeemRequests :
          call' = [op |-> "RedeemRequest.toString", request |-> request,
                   res |-> RedeemRequestToString(request)]
    /\ UNCHANGED <<keys, host, maxBatchSize>>

\* RedeemRequest.from(s)
DecodeRedeemRequest ==
    /\ \E strict \in BOOLEAN :
          \/ /\ call.op = "RedeemRequest.toString"
             /\ call' = [op |-> "RedeemRequest.from", s |-> call.res, strict |-> strict,
                         sent |-> [some |-> TRUE, request |-> call.request],
                         res |-> RedeemRequestFrom(call.res, strict)]
          \/ /\ call.op = "idle"
             /\ \E s \in WireRedeemRequests :
                   call' = [op |-> "RedeemRequest.from", s |-> s, strict |-> strict,
                            sent |-> NotSent,
                            res |-> RedeemRequestFrom(s, strict)]
    /\ UNCHANGED <<keys, host, maxBatchSize>>

\* keyPair.toJWK() of a key pair whose secret is a bigint (what
\* DataBuffer.numberToBytes makes of a Uint8Array is not known from src/).
ExportJWK ==
    /\ call.op = "idle"
    /\ \E keyPair \in {kp \in KeyPairs : IsBigInt(kp.secretKey.scalar)} :
          call' = [op |-> "toJWK", keyPair |-> keyPair, res |-> toJWK(keyPair)]
    /\ UNCHANGED <<keys, host, maxBatchSize>>

\* PrivateStateTokenKeyPair.fromJWK(jwk) of the record just exported.
ImportJWK ==
    /\ call.op = "toJWK"
    /\ call' = [op |-> "fromJWK", keyPair |-> call.keyPair, jwk |-> call.res,
                res |-> fromJWK(call.res, 0, DefaultExpiry)]
    /\ UNCHANGED <<keys, host, maxBatchSize>>

CodecNext ==
    EncodeIssueRequest \/ DecodeIssueRequest \/ EncodeRedeemRequest \/ DecodeRedeemRequest
      \/ ExportJWK \/ ImportJWK \/ Return

CodecSpec == CodecInit /\ [][CodecNext]_vars

-----------------------------------------------------------------------------
(* The key model and the issuer's key management: a caller constructs or   *)
(* imports a key pair, may assign its id and expiry, and hands it to the   *)
(* issuer; call.res is the pair the caller holds.                          *)

\* Timestamps given as expiry: seconds, milliseconds, microseconds, and the
\* second 10^9.
Expiries ==
    {<<1, 7>> \o Zeros(8), <<1, 8>> \o Zeros(11), <<1, 9>> \o Zeros(14),
     <<1>> \o Zeros(9)}

\* 10^15 + 1, a microsecond timestamp of 16 digits whose Math.log10 is 15.
RoundedExpiry == <<1>> \o Zeros(14) \o <<1>>

\* The expiries the two keys handed to the constructor carry: none, or one
\* on the public key, or one on each.
SubKeyExpiries ==
    {[publicKey |-> NoExpiry, secretKey |-> NoExpiry],
     [publicKey |-> <<1, 8>> \o Zeros(11), secretKey |-> NoExpiry],
     [publicKey |-> <<1, 8>> \o Zeros(11), secretKey |-> <<1, 7>> \o Zeros(8)]}

\* Arguments of new PrivateStateTokenKeyPair(id, publicKey, secretKey, expiry):
\* the two keys carry the id subId.
KeyPairArguments ==
    {[id |-> id, subId |-> subId, expiry |-> expiry, subExpiry |-> sub] :
        id \in KeyIds, subId \in KeyIds, expiry \in Expiries,
        sub \in {[publicKey |-> NoExpiry, secretKey |-> NoExpiry]}}
    \cup
    {[id |-> id, subId |-> subId, expiry |-> NoExpiry, subExpiry |-> sub] :
        id \in KeyIds, subId \in KeyIds, sub \in SubKeyExpiries}
    \cup
    {[id |-> 0, subId |-> 0, expiry |-> RoundedExpiry,
      subExpiry |-> [publicKey |-> NoExpiry, secretKey |-> NoExpiry]]}

\* JWK records: the coordinates of 2 * G and the secret 2, base64 encoded.
JWKs ==
    {[kty |-> "EC", crv |-> "P-384", kid |-> kid,
      x |-> Base64Encode(numberToBytes(CurveX(2), BYTES)),
      y |-> Base64Encode(numberToBytes(CurveY(2), BYTES)),
      d |-> Base64Encode(numberToBytes(2, BYTES)),
      exp |-> exp] :
        kid \in KeyIds, exp \in {<<1, 7>> \o Zeros(8), <<1>> \o Zeros(9), NoExpiry}}

AssignedIds == {0, 2}
AssignedExpiries == {<<1, 7>> \o Zeros(8), <<1, 9>> \o Zeros(14)}

\* The operations that leave a key pair in the caller's hands.
HoldsPair == call.op \in {"new KeyPair", "fromJWK", "set id", "set expiry"}

\* PrivateStateTokenIssuer.generate() with its default arguments, which holds
\* one generated key pair, or new PrivateStateTokenIssuer(host, 2) with none.
KeyInit ==
    /\ call = Idle
    /\ \/ /\ keys = MapOf(<<generate(0, 2, DefaultExpiry)>>)
          /\ host = DEFAULT_HOST
          /\ maxBatchSize = 10
       \/ /\ keys = MapOf(<<>>)
          /\ host = "https://issuer.example"
          /\ maxBatchSize = 2

\* new PrivateStateTokenKeyPair(id, publicKey, secretKey, expiry)
NewKeyPair ==
    /\ call.op = "idle"
    /\ \E a \in KeyPairArguments :
          call' = [op |-> "new KeyPair", args |-> a,
                   res |-> PrivateStateTokenKeyPair(a.id,
                              PrivateStateTokenPublicKey(a.subId, toRawBytes(multiply(BASE, 2)),
                                                         a.subExpiry.publicKey),
                              PrivateStateTokenSecretKey(a.subId, BigInt(2), a.subExpiry.secretKey),
                              a.expiry, DefaultExpiry)]
    /\ UNCHANGED <<keys, host, maxBatchSize>>

\* PrivateStateTokenKeyPair.fromJWK(jwk)
FromJWK ==
    /\ call.op = "idle"
    /\ \E jwk \in JWKs :
          call' = [op |-> "fromJWK", jwk |-> jwk, res |-> fromJWK(jwk, 0, DefaultExpiry)]
    /\ UNCHANGED <<keys, host, maxBatchSize>>

\* What the caller has assigned to the pair it holds: the last id and the
\* last expiry, each as a sequence of at most one value.
Assigned ==
    IF call.op \in {"set id", "set expiry"} THEN call.assigned
    ELSE [id |-> <<>>, expiry |-> <<>>]

\* pair.id = value
SetId ==
    /\ HoldsPair
    /\ \E value \in AssignedIds :
          call' = [op |-> "set id", value |-> value, res |-> setId(call.res, value),
                   assigned |-> [Assigned EXCEPT !.id = <<value>>]]
    /\ UNCHANGED <<keys, host, maxBatchSize>>

\* pair.expiry = value
SetExpiry ==
    /\ HoldsPair
    /\ \E value \in AssignedExpiries :
          call' = [op |-> "set expiry", value |-> value, res |-> setExpiry(call.res, value),
                   assigned |-> [Assigned EXCEPT !.expiry = <<value>>]]
    /\ UNCHANGED <<keys, host, maxBatchSize>>

\* issuer.addKey(pair) with the pair the caller holds, which the caller
\* then lets go of.
AddKeyPair ==
    /\ HoldsPair
    /\ Len(MapSet(keys, call.res.id, call.res)) <= MaxKeys
    /\ keys' = MapSet(keys, call.res.id, call.res)
    /\ call' = [op |-> "addKey", key |-> call.res]
    /\ UNCHANGED <<host, maxBatchSize>>

\* The caller still holds the pair it handed to addKey: the Map holds the
\* same object under the id it had when it was added.
AddedHeld == call.op \in {"addKey", "set added id", "set added expiry"}

\* The Map key under which the pair held by the caller is stored.
AddedUnder == IF call.op = "addKey" THEN call.key.id ELSE call.under

\* The pair held by the caller, as it is now.
AddedPair == IF call.op = "addKey" THEN call.key ELSE call.res

\* The Map after the held pair has become `pair`.
WithAdded(pair) ==
    [i \in 1..Len(keys) |->
        IF keys[i].key = AddedUnder THEN [key |-> AddedUnder, value |-> pair] ELSE keys[i]]

\* pair.id = value on the pair handed to addKey.
SetAddedId ==
    /\ AddedHeld
    /\ \E value \in AssignedIds :
          /\ keys' = WithAdded(setId(AddedPair, value))
          /\ call' = [op |-> "set added id", value |-> value, under |-> AddedUnder,
                      res |-> setId(AddedPair, value)]
    /\ UNCHANGED <<host, maxBatchSize>>

\* pair.expiry = value on the pair handed to addKey.
SetAddedExpiry ==
    /\ AddedHeld
    /\ \E value \in AssignedExpiries :
          /\ keys' = WithAdded(setExpiry(AddedPair, value))
          /\ call' = [op |-> "set added expiry", value |-> value, under |-> AddedUnder,
                      res |-> setExpiry(AddedPair, value)]
    /\ UNCHANGED <<host, maxBatchSize>>

\* issuer.addJWK(jwk): addKey(PrivateStateTokenKeyPair.fromJWK(jwk))
AddJWK ==
    /\ call.op = "idle"
    /\ \E jwk \in JWKs :
          LET key == fromJWK(jwk, 0, DefaultExpiry)
          IN  /\ Len(MapSet(keys, key.id, key)) <= MaxKeys
              /\ keys' = MapSet(keys, key.id, key)
              /\ call' = [op |-> "addJWK", jwk |-> jwk, key |-> key]
    /\ UNCHANGED <<host, maxBatchSize>>

\* issuer.keyCommitment(version)
KeyCommitment ==
    /\ call.op = "idle"
    /\ \E version \in VersionNames :
          call' = [op |-> "keyCommitment", version |-> version,
                   res |-> keyCommitment(keys, host, maxBatchSize, version)]
    /\ UNCHANGED <<keys, host, maxBatchSize>>

KeyNext ==
    NewKeyPair \/ FromJWK \/ SetId \/ SetExpiry \/ AddKeyPair \/ AddJWK \/ KeyCommitment
      \/ Return

KeySpec == KeyInit /\ [][KeyNext]_vars

\* Key management in which the caller goes on using a key pair after it has
\* added it: the issuer's Map and the caller hold the same object.
SharedKeyNext == KeyNext \/ SetAddedId \/ SetAddedExpiry

SharedKeySpec == KeyInit /\ [][SharedKeyNext]_vars

-----------------------------------------------------------------------------
(* Properties of issue and redeem, checked under Spec.                     *)

IssueDone == call.op = "issue"
RedeemDone == call.op = "redeem"
IssueKeyKnown == IssueDone /\ MapHas(keys, call.keyId)

\* The batch coefficients a verifier derives from the request, the signed
\* elements and the public key, under the hash and HashToScalar DST of a
\* version.
Coefficients(keyPair, nonces, signed, version) ==
    exponentList(batchTranscript(keyPair, nonces, signed), Len(nonces),
                 getVersionConfig(version))

\* C1: for every key id in the key map and every request T_0..T_{c-1},
\* issue returns a response with keyID = keyId, exactly c signed elements and
\* signed[i] = sk * T_i.
C1_IssueSignsEveryRequest ==
    IssueKeyKnown =>
        LET sk == Secret(MapGet(keys, call.keyId))
        IN  /\ call.res.kind = "response"
            /\ call.res.keyID = call.keyId
            /\ Len(call.res.signed) = Len(call.nonces)
            /\ \A i \in 1..Len(call.nonces) :
                  call.res.signed[i] = (sk * call.nonces[i]) % Order

\* C2: when the public key is sk * G and the request is not empty, the proof
\* (c, u) of the response verifies: u*G - c*pk = r*G, u*T* - c*Z* = r*T*,
\* u = (r + c*sk) mod n, and the challenge recomputed from pk, T*, Z* and these
\* two commitments with the issuer's hash is c.
C2_ProofVerifies ==
    (/\ IssueKeyKnown
     /\ call.res.kind = "response"
     /\ call.nonces # <<>>
     /\ publicKeyToBytes(MapGet(keys, call.keyId).publicKey)
           = toRawBytes((Secret(MapGet(keys, call.keyId)) * BASE) % Order))
    =>
        LET keyPair == MapGet(keys, call.keyId)
            sk == Secret(keyPair)
            pk == fromHex(publicKeyToBytes(keyPair.publicKey))
            c == bytesToNumber(SubSeq(call.res.proof, 1, BYTES))
            u == bytesToNumber(SubSeq(call.res.proof, BYTES + 1, 2 * BYTES))
            e == Coefficients(keyPair, call.nonces, call.res.signed, call.version)
            T == composite(call.nonces, e, Len(call.nonces))
            Z == composite(call.res.signed, e, Len(call.nonces))
            k0 == (u * BASE + Order * Order - c * pk) % Order
            k1 == (u * T + Order * Order - c * Z) % Order
        IN  /\ Len(call.res.proof) = 2 * BYTES
            /\ k0 = (call.r * BASE) % Order
            /\ k1 = (call.r * T) % Order
            /\ u = (call.r + c * sk) % Order
            /\ c = hash_to_field(DLEQ_LABEL \o publicKeyToBytes(keyPair.publicKey)
                                     \o toRawBytes(T) \o toRawBytes(Z)
                                     \o toRawBytes(k0) \o toRawBytes(k1),
                                 hashTofieldConfig(PrivateStateTokenV3VOPRF))

\* A proof over a batch of two under V1 for the test key pair, with a
\* challenge that is neither 0 nor 1.
C2_Witness ==
    /\ IssueKeyKnown
    /\ call.res.kind = "response"
    /\ Len(call.nonces) = 2
    /\ call.version = "PrivateStateTokenV1VOPRF"
    /\ MapGet(keys, call.keyId) = TEST_JWK
    /\ bytesToNumber(SubSeq(call.res.proof, 1, BYTES)) > 1

\* The element redeem must find in a token: sk * hash_to_group(nonce) under
\* the hash and HashToGroup DST of the version.
ExpectedToken(sk, nonce, version) ==
    LET h == IF version = "PrivateStateTokenV1VOPRF"
             THEN hashToCurve(nonce, [DST |-> "HashToGroup-OPRFV1-P384-SHA384", hash |-> "sha384"])
             ELSE hashToCurve(nonce, [DST |-> "TrustToken VOPRF Experiment V2 HashToGroup",
                                      hash |-> "sha512"])
    IN  (sk * h) % Order

RecordBytes(record) ==
    IF record.type = "string" THEN <<111, 107>> ELSE record.data

\* C3: for a key id in the key map with secret sk and a version V1 or V3, redeem
\* returns a response holding the supplied record when the request's point is
\* sk * hash_to_group(nonce), and null when the point differs.
C3_RedeemSound ==
    (/\ RedeemDone
     /\ MapHas(keys, call.request.keyID)
     /\ call.version \in {"PrivateStateTokenV1VOPRF", "PrivateStateTokenV3VOPRF"})
    =>
        LET sk == Secret(MapGet(keys, call.request.keyID))
        IN  IF call.request.point = ExpectedToken(sk, call.request.nonce, call.version)
            THEN call.res.kind = "response" /\ call.res.record = RecordBytes(call.record)
            ELSE call.res.kind = "null"

\* C4: issue returns null exactly when keyId is not in the key map, and
\* for a keyId in the map a response, for zero nonces one with an empty signed
\* list.
C4_ResponseForEveryRequest ==
    IssueDone =>
        /\ (call.res.kind = "null") <=> ~MapHas(keys, call.keyId)
        /\ MapHas(keys, call.keyId) =>
              /\ call.res.kind = "response"
              /\ call.nonces = <<>> => call.res.signed = <<>>

\* C5: redeem of a request whose keyID is not in the key map returns null, as
\* for a point mismatch, and raises no exception.
C5_UnknownKeyRejects ==
    (RedeemDone /\ ~MapHas(keys, call.request.keyID)) => call.res.kind = "null"

\* The response issue gives for the same key map, key id and request under
\* the other of the two versions.
OtherVersion(version) ==
    IF version = "PrivateStateTokenV1VOPRF" THEN "PrivateStateTokenV3VOPRF"
    ELSE "PrivateStateTokenV1VOPRF"

IssueUnderOther == issue(keys, call.keyId, call.nonces, OtherVersion(call.version))

BothRespond(other) ==
    /\ IssueDone
    /\ call.nonces # <<>>
    /\ call.res.kind = "response"
    /\ other.kind = "response"

\* C9 as stated: for the same issuer, key and request, the signed elements Z_i
\* under V1 differ from those under V3, and the proofs differ.
C9_VersionsDisjoint ==
    LET other == IssueUnderOther
    IN  BothRespond(other) =>
            /\ \A i \in 1..Len(call.nonces) : call.res.signed[i] # other.signed[i]
            /\ call.res.proof # other.proof

\* C9 amended: for the same issuer, key and non-empty request, the responses
\* issue returns under V1 and under V3 carry the same keyID and the same signed
\* elements Z_i = sk * T_i, and their proofs differ: the version enters a
\* response only through the proof.
C9_SignedSameAcrossVersions ==
    LET other == IssueUnderOther
    IN  BothRespond(other) =>
            /\ call.res.signed = other.signed
            /\ call.res.keyID = other.keyID
            /\ \A i \in 1..Len(call.nonces) :
                  call.res.signed[i] =
                     (Secret(MapGet(keys, call.keyId)) * call.nonces[i]) % Order
            /\ call.res.proof # other.proof

\* Two versions answer a batch of two with the same Z_i and different proofs.
C9_Witness ==
    LET other == IssueUnderOther
    IN  /\ BothRespond(other)
        /\ Len(call.nonces) = 2
        /\ call.res.signed = other.signed
        /\ call.res.proof # other.proof

\* C10: the proof nonce r of an issue call is the scalar the random source
\* delivers to that call.
C10_NonceFromRandomSource ==
    (IssueDone /\ call.res.kind = "response") => call.r = call.random

\* C13: a step that is an issue or a redeem call, successful or failed, leaves
\* the key map (ids, key pairs, their scalars, ids and expiries), host and
\* maxBatchSize as they were.
C13_CallsLeaveIssuerUnchanged ==
    [][(call'.op \in {"issue", "redeem"})
          => (keys' = keys /\ host' = host /\ maxBatchSize' = maxBatchSize)]_vars

\* An issue call that failed on an issuer holding two key pairs.
C13_Witness ==
    /\ IssueKeyKnown
    /\ Len(keys) = 2
    /\ call.res.kind = "throw"

\* The proof transcript "DLEQ\0" || pk || T* || Z* || k0 || k1 of a response,
\* for coefficients e and the proof nonce r of the call.
ProofTranscript(keyPair, e) ==
    LET T == composite(call.nonces, e, Len(call.nonces))
        Z == composite(call.res.signed, e, Len(call.nonces))
    IN  DLEQ_LABEL \o publicKeyToBytes(keyPair.publicKey)
          \o toRawBytes(T) \o toRawBytes(Z)
          \o toRawBytes((call.r * BASE) % Order) \o toRawBytes((call.r * T) % Order)

\* C18: the challenge c of the proof is the hash of the proof transcript under
\* the hash and HashToScalar DST of the version the call selected.
C18_ChallengeUsesCallVersion ==
    (IssueKeyKnown /\ call.res.kind = "response")
    =>
        LET keyPair == MapGet(keys, call.keyId)
            e == Coefficients(keyPair, call.nonces, call.res.signed, call.version)
        IN  bytesToNumber(SubSeq(call.res.proof, 1, BYTES))
               = hash_to_field(ProofTranscript(keyPair, e),
                               hashTofieldConfig(getVersionConfig(call.version)))

\* The batch transcript laid out pair by pair: the public key bytes, then
\* for each i in request order the bytes of T_i and of Z_i = sk * T_i.
PairedTranscript(keyPair, nonces) ==
    publicKeyToBytes(keyPair.publicKey)
      \o Flatten([i \in 1..Len(nonces) |->
                    toRawBytes(nonces[i])
                      \o toRawBytes((Secret(keyPair) * nonces[i]) % Order)])

\* The coefficient e_i derived from that transcript and the index i.
PairedCoefficients(keyPair, nonces, version) ==
    [i \in 1..Len(nonces) |->
        hash_to_field(DLEQ_BATCH_LABEL \o PairedTranscript(keyPair, nonces)
                         \o numberToBytes(i - 1, 2),
                      hashTofieldConfig(getVersionConfig(version)))]

\* C20: with the transcript pk || T_0 || Z_0 || ... in request order and e_i
\* derived from it and i, the composites T* = sum e_i * T_i and Z* = sum e_i * Z_i
\* are the ones the proof of the response is made over, and Z* = sk * T*.
C20_CompositesPairCoefficients ==
    (IssueKeyKnown /\ call.res.kind = "response")
    =>
        LET keyPair == MapGet(keys, call.keyId)
            e == PairedCoefficients(keyPair, call.nonces, call.version)
            T == composite(call.nonces, e, Len(call.nonces))
            Z == composite(call.res.signed, e, Len(call.nonces))
        IN  /\ Z = (Secret(keyPair) * T) % Order
            /\ bytesToNumber(SubSeq(call.res.proof, 1, BYTES))
                  = hash_to_field(ProofTranscript(keyPair, e),
                                  hashTofieldConfig(PrivateStateTokenV3VOPRF))

\* A response to a batch of two different nonces, whose two coefficients
\* differ.
C20_Witness ==
    /\ IssueKeyKnown
    /\ call.res.kind = "response"
    /\ Len(call.nonces) = 2
    /\ call.nonces[1] # call.nonces[2]
    /\ LET e == PairedCoefficients(MapGet(keys, call.keyId), call.nonces, call.version)
       IN  e[1] # e[2]

-----------------------------------------------------------------------------
(* Properties of the wire codec, checked under CodecSpec.                  *)

\* The points among the first count 97-byte elements that follow the count
\* field, in order.
RECURSIVE ValidDeclared(_, _, _)
ValidDeclared(bytes, count, i) ==
    IF i > count THEN <<>>
    ELSE LET element == SubSeq(bytes, 2 + (i - 1) * PointLength + 1, 2 + i * PointLength)
         IN  (IF \E p \in Points : element = toRawBytes(p)
              THEN <<CHOOSE p \in Points : element = toRawBytes(p)>>
              ELSE <<>>) \o ValidDeclared(bytes, count, i + 1)

DeclaredCount(bytes) == bytes[1] * 256 + bytes[2]

\* C6: for bytes that hold a u16 count and at least count 97-byte elements,
\* IssueRequest.from returns the valid points among the count declared elements,
\* in order, and nothing else.
C6_FromKeepsValidDeclared ==
    (/\ call.op = "IssueRequest.from"
     /\ Len(Base64Decode(call.s)) >= 2 + DeclaredCount(Base64Decode(call.s)) * PointLength)
    =>
        /\ call.res.kind = "request"
        /\ call.res.nonces =
              ValidDeclared(Base64Decode(call.s), DeclaredCount(Base64Decode(call.s)), 1)

\* C7: IssueRequest.from(M.toString()) has the nonces of M in order;
\* RedeemRequest.from(M.toString()) has the keyID, nonce, point and clientData
\* of M; and the token_len field of an encoded RedeemRequest is 165.
C7_RoundTrip ==
    /\ (call.op = "IssueRequest.from" /\ call.sent.some) =>
          /\ call.res.kind = "request"
          /\ call.res.nonces = call.sent.nonces
    /\ (call.op = "RedeemRequest.from" /\ call.sent.some) =>
          /\ call.res.kind = "request"
          /\ call.res.keyID = call.sent.request.keyID
          /\ call.res.nonce = call.sent.request.nonce
          /\ call.res.point = call.sent.request.point
          /\ call.res.clientData = call.sent.request.clientData
    /\ call.op = "RedeemRequest.toString" =>
          LET bytes == Base64Decode(call.res)
          IN  bytes[1] * 256 + bytes[2] = 165

\* A RedeemRequest with a four-byte key id and client data came back from the
\* decoder.
C7_Witness ==
    /\ call.op = "RedeemRequest.from"
    /\ call.sent.some
    /\ call.sent.request.keyID = 16909060
    /\ call.sent.request.clientData # <<>>
    /\ call.res.kind = "request"
    /\ call.res.keyID = 16909060

\* An IssueRequest of MaxCount nonces came back from the decoder.
C7_WitnessIssue ==
    /\ call.op = "IssueRequest.from"
    /\ call.sent.some
    /\ Len(call.sent.nonces) = MaxCount
    /\ call.res.kind = "request"

\* C8: RedeemRequest.from fails, and returns no RedeemRequest, when the leading
\* token_len field is not 165.
C8_TokenLenChecked ==
    (/\ call.op = "RedeemRequest.from"
     /\ DeclaredCount(Base64Decode(call.s)) # 165)
    => call.res.kind = "throw"

\* C19: IssueRequest.from ends on every input by returning a request, having
\* read at most the count declared elements.
C19_FromTerminates ==
    call.op = "IssueRequest.from" =>
        /\ call.res.kind = "request"
        /\ Len(call.res.nonces) <= DeclaredCount(Base64Decode(call.s))

-----------------------------------------------------------------------------
(* Properties of the key model and key management, checked under KeySpec.  *)

\* The smallest k in {0, 3, 6, 9, 12, 15} for which expiry * 10^k has at least
\* 16 decimal digits.
SmallestPower(expiry) ==
    CHOOSE k \in {0, 3, 6, 9, 12, 15} :
        /\ Len(expiry) + k >= 16
        /\ \A j \in {0, 3, 6, 9, 12, 15} : j < k => Len(expiry) + j < 16

\* C11: the expiry a key pair stores for a positive expiry given to the
\* constructor or as a JWK exp is expiry * 10^k for that smallest k.
C11_ExpiryScaledBySmallestPower ==
    /\ (call.op = "new KeyPair" /\ call.args.expiry # NoExpiry) =>
          call.res.expiry = call.args.expiry \o Zeros(SmallestPower(call.args.expiry))
    /\ (call.op = "fromJWK" /\ call.jwk.exp # NoExpiry) =>
          call.res.expiry = call.jwk.exp \o Zeros(SmallestPower(call.jwk.exp))

\* C12: after assignments of id or expiry to a key pair, the pair and both of
\* its keys carry the last assigned id and the last assigned expiry.
C12_AssignmentPropagates ==
    call.op \in {"set id", "set expiry"} =>
        /\ call.assigned.id # <<>> =>
              /\ call.res.id = call.assigned.id[1]
              /\ call.res.publicKey.id = call.assigned.id[1]
              /\ call.res.secretKey.id = call.assigned.id[1]
        /\ call.assigned.expiry # <<>> =>
              /\ call.res.expiry = call.assigned.expiry[1]
              /\ call.res.publicKey.expiry = call.assigned.expiry[1]
              /\ call.res.secretKey.expiry = call.assigned.expiry[1]

\* An id and then an expiry were assigned to a pair that was constructed
\* with a different id and a different expiry.
C12_Witness ==
    /\ call.op = "set expiry"
    /\ call.assigned.id = <<2>>
    /\ call.assigned.expiry = <<<<1, 7>> \o Zeros(8)>>
    /\ call.res.secretKey.id = 2
    /\ call.res.secretKey.expiry = <<1, 7>> \o Zeros(8)

\* C14: an addKey or addJWK step upserts by the pair's id: publicKeys keeps one
\* key per id in the order of first insertion, the entry of the added id is
\* the added pair's public key, and the other entries stay.
C14_AddUpserts ==
    [][(call'.op \in {"addKey", "addJWK"})
          => LET key == call'.key
                 before == publicKeys(keys)
                 after == publicKeys(keys')
             IN  /\ IF \E i \in 1..Len(keys) : keys[i].key = key.id
                    THEN /\ Len(after) = Len(before)
                         /\ \A i \in 1..Len(keys) :
                               after[i] = IF keys[i].key = key.id THEN key.publicKey
                                          ELSE before[i]
                    ELSE after = Append(before, key.publicKey)
                 /\ \A i, j \in 1..Len(keys') : i # j => keys'[i].key # keys'[j].key]_vars

\* addJWK replaced the first of two entries in place.
C14_Witness ==
    /\ call.op = "addJWK"
    /\ Len(keys) = 2
    /\ keys[1].key = call.key.id
    /\ keys[1].value = call.key
    /\ keys[2].value.publicKey.expiry # call.key.expiry

\* The body of a key commitment document: the value under its host and
\* protocol name.
CommitmentBody(document) ==
    LET h == CHOOSE h \in DOMAIN document : TRUE
        n == CHOOSE n \in DOMAIN document[h] : TRUE
    IN  document[h][n]

\* C15: keyCommitment(version) has the single key host, under it the single key
\* protocol name, then protocol_version, id = 1, batchsize = maxBatchSize and
\* one keys entry per key pair of the map, under the pair's id, with
\* Y = base64(u32 id || public point) and the expiry as a decimal string.
C15_CommitmentListsEveryPair ==
    call.op = "keyCommitment" =>
        LET name == IF call.version = "PrivateStateTokenV1VOPRF"
                    THEN "PrivateStateTokenV1VOPRF" ELSE "PrivateStateTokenV3VOPRF"
            body == CommitmentBody(call.res)
        IN  /\ DOMAIN call.res = {host}
            /\ DOMAIN call.res[host] = {name}
            /\ body.protocol_version = name
            /\ body.id = 1
            /\ body.batchsize = maxBatchSize
            /\ DOMAIN body.keys = {keys[i].value.id : i \in 1..Len(keys)}
            /\ Cardinality(DOMAIN body.keys) = Len(keys)
            /\ \A i \in 1..Len(keys) :
                  LET pair == keys[i].value
                  IN  /\ body.keys[pair.id].Y
                            = Base64Encode(numberToBytes(pair.id, 4)
                                             \o PadBytes(pair.publicKey.scalar, PointLength))
                      /\ body.keys[pair.id].expiry
                            = [j \in 1..Len(pair.expiry) |-> 48 + pair.expiry[j]]

\* C16: every expiry string a key commitment holds is the decimal form of a
\* value of at least 16 digits.
C16_CommitmentExpiryInMicroseconds ==
    call.op = "keyCommitment" =>
        LET body == CommitmentBody(call.res)
        IN  \A id \in DOMAIN body.keys :
               /\ Len(body.keys[id].expiry) >= 16
               /\ \A j \in 1..Len(body.keys[id].expiry) : body.keys[id].expiry[j] \in 48..57

\* C23: immediately after new PrivateStateTokenKeyPair(id, publicKey,
\* secretKey, expiry) the pair's id is the id argument, 0 included, and the
\* public key and the secret key carry the pair's id, whatever ids they
\* carried before.
C23_ConstructorSetsIds ==
    call.op = "new KeyPair" =>
        /\ call.res.id = call.args.id
        /\ call.res.publicKey.id = call.res.id
        /\ call.res.secretKey.id = call.res.id

\* C24: JWK round trip: toJWK emits x and y of 48 bytes each with
\* 0x04 || x || y equal to the public key's 97-byte encoding and d equal to
\* the 48-byte secret scalar, so that fromJWK(kp.toJWK()) has the id, the
\* public key bytes and the secret scalar of kp.
C24_JWKRoundTrip ==
    call.op = "fromJWK" /\ "keyPair" \in DOMAIN call =>
        LET kp == call.keyPair
            x == Base64Decode(call.jwk.x)
            y == Base64Decode(call.jwk.y)
            d == Base64Decode(call.jwk.d)
        IN  /\ Len(x) = BYTES
            /\ Len(y) = BYTES
            /\ <<4>> \o x \o y = publicKeyToBytes(kp.publicKey)
            /\ Len(publicKeyToBytes(kp.publicKey)) = PointLength
            /\ d = numberToBytes(Secret(kp), BYTES)
            /\ call.res.id = kp.id
            /\ publicKeyToBytes(call.res.publicKey) = publicKeyToBytes(kp.publicKey)
            /\ call.res.secretKey.scalar = kp.secretKey.scalar

\* A key pair has just been added under the id of a pair with another secret.
KeyReplaced ==
    /\ call.op = "addKey"
    /\ "replaced" \in DOMAIN call
    /\ call.replaced # <<>>
    /\ Secret(call.replaced[1]) # Secret(call.key)

\* The token (nonce, sk * hash_to_group(nonce)) presented for the key id.
TokenUnder(sk, keyID, nonce, version) ==
    [keyID |-> keyID, nonce |-> nonce, point |-> ExpectedToken(sk, nonce, version),
     clientData |-> <<>>]

\* C21: after addKey(k2) with the id of an existing pair k1 whose secret
\* differs, every issue for that id signs with k2's secret, every token
\* (nonce, sk1 * hash_to_group(nonce)) obtained under k1 is rejected by redeem,
\* and a token formed with k2's secret is accepted.
C21_ReplacementTakesEffect ==
    KeyReplaced =>
        LET id == call.key.id
            sk1 == Secret(call.replaced[1])
            sk2 == Secret(call.key)
        IN  /\ \A nonces \in Requests, version \in IssueVersions :
                  LET res == issue(keys, id, nonces, version)
                  IN  /\ res.kind # "null"
                      /\ res.kind = "response" =>
                            /\ Len(res.signed) = Len(nonces)
                            /\ \A i \in 1..Len(nonces) :
                                  res.signed[i] = (sk2 * nonces[i]) % Order
            /\ \A nonce \in Nonces, version \in IssueVersions, record \in Records :
                  /\ redeem(keys, TokenUnder(sk1, id, nonce, version), record, version).kind
                        = "null"
                  /\ redeem(keys, TokenUnder(sk2, id, nonce, version), record, version)
                        = RedeemResponse(record)

\* C22: after any sequence of key pair construction, issuer construction,
\* addKey, addJWK and assignments to a key pair's id, every id listed in
\* keyCommitment().keys is a key of the map whose pair has that id, as has its
\* public key, which is the one listed, and issue for that id returns a
\* response signed with that pair's secret.
C22_CommittedIdsIssue ==
    call.op = "keyCommitment" =>
        \A id \in DOMAIN CommitmentBody(call.res).keys :
            /\ MapHas(keys, id)
            /\ LET pair == MapGet(keys, id)
                   res == issue(keys, id, <<BASE>>, DEFAULT_VERSION)
               IN  /\ pair.id = id
                   /\ pair.publicKey.id = id
                   /\ CommitmentBody(call.res).keys[id].Y
                         = Base64Encode(writeInt32(id) \o publicKeyToBytes(pair.publicKey))
                   /\ res.kind = "response"
                   /\ res.signed = <<(Secret(pair) * BASE) % Order>>

====
